---- MODULE Spec2Model ----
(***************************************************************************)
(* The ImageNet/JAX workload (workloads/imagenet/imagenet_jax/workload.py) *)
(* and its SGD submission (submission.py) as a state machine.              *)
(*                                                                         *)
(* Tensors are modelled by small integers: a replicated value is a tuple   *)
(* indexed by the replicas 1..R (the leading pmap axis), a parameter tree  *)
(* is a function over Leaves, floating point is finite ring arithmetic     *)
(* (Wrap), and a float mean is the rounded quotient sum \div n.  An        *)
(* optional Python value is <<>> (None) or <<v>>.                          *)
(***************************************************************************)
EXTENDS Integers, Sequences, FiniteSets, TLC

VARIABLES R, shuffle_seed, _param_shapes, _eval_ds, params, model_state, optimizer_state,
          global_step, input_queue, batch, selected_count, eval_pc, eval_local,
          eval_count, sync_log, last_call, call_arg

vars == <<R, shuffle_seed, _param_shapes, _eval_ds, params, model_state, optimizer_state,
          global_step, input_queue, batch, selected_count, eval_pc, eval_local,
          eval_count, sync_log, last_call, call_arg>>

---------------------------------------------------------------------------
(* Bounds of the model *)

\* jax.device_count() is drawn from 1..MaxReplicas when the process starts,
\* and the seed of the input pipeline's shuffle from 0..QueueLen-1
MaxReplicas == 3
\* tensor entries range over 0..MaxVal
MaxVal == 3
\* random seeds range over 0..MaxRng
MaxRng == 0
\* length of the finite sequence an input iterator cycles through
QueueLen == 2
\* the driver stops after MaxSteps training steps
MaxSteps == 147
\* the driver makes at most MaxEvals evaluations
MaxEvals == 2
\* has_reached_goal is tried on accuracies within MaxDelta of the target
MaxDelta == 10
\* the learning-rate schedule is tried with warmup_epochs in 0..MaxWarmup,
\* num_epochs in 1..MaxEpochs, steps_per_epoch in 1..MaxSpe and
\* learning_rate in {0, 1.0, ..., MaxRate}
MaxWarmup == 2
MaxEpochs == 3
MaxSpe == 2
MaxRate == 2
\* the training loss is tried with the coefficient l2 in 0..MaxL2
MaxL2 == 2

(* Program constants *)

\* submission.py get_batch_size
get_batch_size == 128
\* workload.py num_train_examples for 'imagenette'
num_train_examples == 9469
\* workload.py num_eval_examples for 'imagenette'
num_eval_examples == 3925
\* workload.py eval_model: eval_batch_size
eval_batch_size == 200
\* workload.py target_value 0.76, in units of 1/10000
target_value == 7600

---------------------------------------------------------------------------
(* Values *)

None == <<>>
Some(v) == <<v>>
IsNone(o) == o = <<>>
Val(o) == o[1]

Vals == 0 .. MaxVal
Rngs == 0 .. MaxRng
Wrap(x) == x % (MaxVal + 1)
Replicas == 1 .. R

RECURSIVE SumTo(_, _)
SumTo(f, n) == IF n = 0 THEN 0 ELSE f[n] + SumTo(f, n - 1)

\* the sum of f over the set S
RECURSIVE SumOver(_, _)
SumOver(f, S) ==
  IF S = {} THEN 0
  ELSE LET x == CHOOSE y \in S : TRUE IN f[x] + SumOver(f, S \ {x})

\* the tuple <<Op(1), ..., Op(n)>>: a value with one entry per replica
RECURSIVE PerReplica(_, _)
PerReplica(Op(_), n) == IF n = 0 THEN <<>> ELSE Append(PerReplica(Op, n - 1), Op(n))

\* whether a per-replica value holds the same thing on every replica
Identical(v) == \A r \in DOMAIN v : v[r] = v[1]

\* flax.jax_utils.replicate: the same value on every replica
replicate(v) == PerReplica(LAMBDA r : v, R)

\* lax.pmean over the pmap axis: psum / axis_size, the same on all replicas
pmean(v) == PerReplica(LAMBDA r : SumTo(v, Len(v)) \div Len(v), Len(v))

\* the parameter tree of the model: one leaf of rank 2 and one of rank 1;
\* any other leaf a tree is given is a scalar
Leaves == {"kernel", "bias"}
ShapeTuple(leaf) ==
  IF leaf = "kernel" THEN <<1, 1>> ELSE IF leaf = "bias" THEN <<1>> ELSE <<>>
ndim(leaf) == Len(ShapeTuple(leaf))

\* pmean of a tree: leaf by leaf
pmean_tree(t) ==
  PerReplica(LAMBDA r :
               [l \in Leaves |-> SumTo([q \in DOMAIN t |-> t[q][l]], Len(t)) \div Len(t)],
             Len(t))

\* test hyperparameters (fractions in tenths)
hyperparameters == [learning_rate |-> 20, momentum |-> 5, l2 |-> 2,
                    warmup_epochs |-> 1, num_epochs |-> 2]

---------------------------------------------------------------------------
(* The input pipeline (input_pipeline.create_input_iter) *)

\* the r-th shard of the i-th batch of a split's cyclic sequence
Shard(split, i, r) ==
  [image |-> Wrap(i + r + (IF split = "train" THEN 0 ELSE 2)),
   label |-> (i * r) % 2]

\* create_input_iter(ds_builder, batch_size, mean, stddev, train, cache): an
\* iterator over the training split when train, over the held-out split
\* otherwise; the shuffle decides where in its repeating sequence it starts
create_input_iter(batch_size, train, start) ==
  [split |-> IF train THEN "train" ELSE "test",
   batch_size |-> batch_size,
   start |-> start % QueueLen,
   pos |-> start % QueueLen]

\* next(it): the element under the iterator, one shard per replica, and the
\* advanced iterator
next_elem(it) == PerReplica(LAMBDA r : Shard(it.split, it.pos, r), R)
next_iter(it) == [it EXCEPT !.pos = (it.pos + 1) % QueueLen]

---------------------------------------------------------------------------
(* workload.py *)

device_count == R

\* a divisibility check that lets a remainder of one through
_build_dataset_raises_lax(batch_size) == batch_size % device_count > 1

\* _build_dataset(data_rng, split, data_dir, batch_size): the raised error,
\* or the iterator create_input_iter returns
_build_dataset_raises(batch_size) == batch_size % device_count > 0
_build_dataset(split, batch_size, start) ==
  create_input_iter(batch_size, TRUE, start)

\* a synchronization that returns the statistics as they are
sync_batch_stats_skipped(ms) == ms

\* a synchronization that sums the statistics without dividing
sync_batch_stats_psum(ms) ==
  PerReplica(LAMBDA r :
               [ms[r] EXCEPT !.batch_stats =
                  SumTo([q \in DOMAIN ms |-> ms[q].batch_stats], Len(ms))],
             Len(ms))

\* sync_batch_stats(model_state): batch_stats replaced by its pmean
sync_batch_stats(ms) ==
  LET avg == pmean(PerReplica(LAMBDA r : ms[r].batch_stats, Len(ms)))
  IN  PerReplica(LAMBDA r : [ms[r] EXCEPT !.batch_stats = avg[r]], Len(ms))

\* initialized(key, model): the parameters and the model state of model.init
initialized(key) ==
  [params |-> [l \in Leaves |-> IF l = "kernel" THEN Wrap(key + 1) ELSE 0],
   model_state |-> [batch_stats |-> 0]]

\* jax.tree_map(lambda x: spec.ShapeTuple(x.shape), params)
shapes_of(p) == [l \in DOMAIN p |-> ShapeTuple(l)]

\* an init_model_fn that leaves self._param_shapes unset
init_model_fn_uncached(rng) ==
  [_param_shapes |-> None,
   params        |-> replicate(initialized(rng).params),
   model_state   |-> replicate(initialized(rng).model_state)]

\* init_model_fn(rng): the value stored in self._param_shapes, and the
\* replicated parameters and model state it returns
init_model_fn(rng) ==
  LET init == initialized(rng)
  IN  [_param_shapes |-> Some(shapes_of(init.params)),
       params        |-> replicate(init.params),
       model_state   |-> replicate(init.model_state)]

\* the property param_shapes, read when self._param_shapes is cache
param_shapes(cache) ==
  IF IsNone(cache)
  THEN [raised |-> TRUE]
  ELSE [raised |-> FALSE, ret |-> Val(cache)]

\* a model_fn whose second value is decided by the mode alone
model_fn_by_mode(p, shard, ms, mode, update_batch_norm) ==
  LET train  == mode = "TRAIN"
      stat   == IF train THEN shard.image ELSE ms.batch_stats
      logits == p.kernel * shard.image + p.bias + stat
      new_ms == [ms EXCEPT !.batch_stats = (ms.batch_stats + shard.image) \div 2]
  IN  IF train THEN <<logits, Some(new_ms)>> ELSE <<logits, None>>

\* model_fn(params, input_batch, model_state, mode, rng, update_batch_norm)
\* on one replica: <<logits, new_model_state or None>>; in TRAIN mode the
\* model normalizes with the statistics of the batch and moves the running
\* statistics towards them, in EVAL mode it reads the running statistics
model_fn(p, shard, ms, mode, update_batch_norm) ==
  LET train  == mode = "TRAIN"
      stat   == IF train THEN shard.image ELSE ms.batch_stats
      logits == p.kernel * shard.image + p.bias + stat
      new_ms == IF train
                THEN [ms EXCEPT !.batch_stats = (ms.batch_stats + shard.image) \div 2]
                ELSE ms
  IN  IF update_batch_norm THEN <<logits, Some(new_ms)>> ELSE <<logits, None>>

\* loss_fn(label_batch, logits_batch): no regularization term
loss_fn(label, logits) == (logits - label) * (logits - label)

\* a goal test that accepts the target itself
has_reached_goal_ge(eval_result) == eval_result.accuracy >= target_value

\* has_reached_goal(eval_result)
has_reached_goal(eval_result) == eval_result.accuracy > target_value

---------------------------------------------------------------------------
(* submission.py *)

steps_per_epoch == num_train_examples \div get_batch_size

\* jnp.cos(jnp.pi * n / d) for 0 <= n <= d, as the fraction <<num, den>> of
\* Bhaskara's rational approximation (exact at n = 0, d/2 and d)
cos_pi(n, d) ==
  IF 2 * n <= d
  THEN <<d * d - 4 * n * n, d * d + n * n>>
  ELSE <<4 * (d - n) * (d - n) - d * d, d * d + (d - n) * (d - n)>>

Min(a, b) == IF a < b THEN a ELSE b
Max(a, b) == IF a > b THEN a ELSE b

\* optax.linear_schedule(init_value, end_value, transition_steps)(count)
linear_schedule(init_value, end_value, transition_steps, count) ==
  IF transition_steps <= 0
  THEN init_value
  ELSE LET c == Max(0, Min(count, transition_steps))
       IN  end_value + ((init_value - end_value) * (transition_steps - c)) \div transition_steps

\* optax.cosine_decay_schedule(init_value, decay_steps)(count)
cosine_decay_schedule(init_value, decay_steps, count) ==
  LET c == cos_pi(Min(count, decay_steps), decay_steps)
  IN  (init_value * (c[2] + c[1])) \div (2 * c[2])

\* a schedule whose cosine part is spread over all num_epochs
create_learning_rate_fn_total(hparams, spe, count) ==
  LET base_learning_rate == (hparams.learning_rate * get_batch_size) \div 256
      boundary      == hparams.warmup_epochs * spe
      cosine_epochs == Max(hparams.num_epochs, 1)
  IN  IF count < boundary
      THEN linear_schedule(0, base_learning_rate, boundary, count)
      ELSE cosine_decay_schedule(base_learning_rate, cosine_epochs * spe, count - boundary)

\* create_learning_rate_fn(hparams, steps_per_epoch)(count)
create_learning_rate_fn(hparams, spe, count) ==
  LET base_learning_rate == (hparams.learning_rate * get_batch_size) \div 256
      boundary      == hparams.warmup_epochs * spe
      cosine_epochs == Max(hparams.num_epochs - hparams.warmup_epochs, 1)
  IN  IF count < boundary
      THEN linear_schedule(0, base_learning_rate, boundary, count)
      ELSE cosine_decay_schedule(base_learning_rate, cosine_epochs * spe, count - boundary)

\* optimizer(hyperparameters, num_train_examples): opt_init_fn of optax.sgd
opt_init_fn(zeros) == [trace |-> zeros, count |-> 0]

\* optimizer(hyperparameters, num_train_examples): opt_update_fn of optax.sgd
\* with nesterov momentum and the learning-rate schedule, on one replica
opt_update_fn(hparams, grad, state, p) ==
  LET lr == create_learning_rate_fn(hparams, steps_per_epoch, state.count)
      new_trace == [l \in Leaves |-> grad[l] + (hparams.momentum * state.trace[l]) \div 10]
      nesterov  == [l \in Leaves |-> grad[l] + (hparams.momentum * new_trace[l]) \div 10]
  IN  [updates |-> [l \in Leaves |-> (0 - lr * nesterov[l]) \div 10],
       state   |-> [trace |-> [l \in Leaves |-> Wrap(new_trace[l])],
                    count |-> state.count + 1]]

\* optimizer(hyperparameters, num_train_examples): the update function it
\* returns, a closure over the hyperparameters it was built with
optimizer(hparams) == [opt_update_fn |-> hparams]

\* a call fn(grad, state, params) of an update function optimizer returned
call_update_fn(fn, grad, state, p) == opt_update_fn(fn.opt_update_fn, grad, state, p)

\* init_optimizer_state: zeros shaped like workload.param_shapes, replicated,
\* paired with the update function of the same optimizer
init_optimizer_state(shapes, hparams) ==
  <<replicate(opt_init_fn([l \in DOMAIN shapes |-> 0])), optimizer(hparams)>>

\* a training loss that penalizes every leaf, whatever its rank
_loss_fn_all_leaves(p, shard, ms, hparams) ==
  LET out       == model_fn(p, shard, ms, "TRAIN", TRUE)
      loss      == loss_fn(shard.label, out[1])
      weight_l2 == SumOver([l \in DOMAIN p |-> p[l] * p[l]], DOMAIN p)
      weight_penalty == (hparams.l2 * weight_l2) \div 2
  IN  <<loss + weight_penalty, Val(out[2])>>

\* pmapped_train_step._loss_fn(params) on one replica: <<loss, new_model_state>>
_loss_fn(p, shard, ms, hparams) ==
  LET out       == model_fn(p, shard, ms, "TRAIN", TRUE)
      loss      == loss_fn(shard.label, out[1])
      weight_l2 == SumOver([l \in DOMAIN p |-> IF ndim(l) > 1 THEN p[l] * p[l] ELSE 0],
                           DOMAIN p)
      weight_penalty == (hparams.l2 * weight_l2) \div 2
  IN  <<loss + weight_penalty, Val(out[2])>>

\* jax.value_and_grad(_loss_fn, has_aux=True) on one replica: the derivative
\* of the loss in each leaf, as a forward difference
grad_fn(p, shard, ms, hparams) ==
  [aux  |-> _loss_fn(p, shard, ms, hparams),
   grad |-> [l \in Leaves |->
               _loss_fn([p EXCEPT ![l] = @ + 1], shard, ms, hparams)[1]
                 - _loss_fn(p, shard, ms, hparams)[1]]]

\* a training step that leaves each replica its own gradient
reduce_grad_local(g) == g

\* the cross-replica reduction of the gradient in pmapped_train_step
reduce_grad(g) == pmean_tree(g)

\* a training step that also averages the new model state over the replicas
pmapped_train_step_sync_aux(fn, ms, opt, p, hparams, b) ==
  LET local == PerReplica(LAMBDA r : grad_fn(p[r], b[r], ms[r], hparams), R)
      grad  == reduce_grad(PerReplica(LAMBDA r : local[r].grad, R))
      upd   == PerReplica(LAMBDA r : call_update_fn(fn, grad[r], opt[r], p[r]), R)
  IN  [new_model_state     |-> sync_batch_stats(PerReplica(LAMBDA r : local[r].aux[2], R)),
       new_optimizer_state |-> PerReplica(LAMBDA r : upd[r].state, R),
       updated_params      |-> PerReplica(LAMBDA r :
                                 [l \in Leaves |-> Wrap(p[r][l] + upd[r].updates[l])], R)]

\* pmapped_train_step(workload, opt_update_fn, model_state, optimizer_state,
\*                    current_param_container, hyperparameters, batch, rng)
pmapped_train_step(fn, ms, opt, p, hparams, b) ==
  LET local == PerReplica(LAMBDA r : grad_fn(p[r], b[r], ms[r], hparams), R)
      grad  == reduce_grad(PerReplica(LAMBDA r : local[r].grad, R))
      upd   == PerReplica(LAMBDA r : call_update_fn(fn, grad[r], opt[r], p[r]), R)
  IN  [new_model_state     |-> PerReplica(LAMBDA r : local[r].aux[2], R),
       new_optimizer_state |-> PerReplica(LAMBDA r : upd[r].state, R),
       updated_params      |-> PerReplica(LAMBDA r :
                                 [l \in Leaves |-> Wrap(p[r][l] + upd[r].updates[l])], R)]

\* a boundary test on the current step instead of the next one
sync_due_current(step) == step % steps_per_epoch = 0

\* update_params: whether this call synchronizes the batch statistics
sync_due(step) == (step + 1) % steps_per_epoch = 0

\* an update_params that synchronizes the statistics it was given, before
\* the training step
update_params_sync_first(p, ms, hparams, input_batch, label_batch, opt, step) ==
  LET b     == PerReplica(LAMBDA r : [image |-> input_batch[r], label |-> label_batch[r]], R)
      opt_update_fn_ == opt[2]
      synced == sync_due(step)
      out   == pmapped_train_step(opt_update_fn_,
                                  IF synced THEN sync_batch_stats(ms) ELSE ms,
                                  opt[1], p, hparams, b)
  IN  [ret    |-> <<(<<out.new_optimizer_state, opt_update_fn_>>), out.updated_params,
                    out.new_model_state>>,
       synced |-> synced,
       used   |-> opt_update_fn_,
       stepped |-> out.new_model_state]

\* an update_params that steps with, and hands on, a plain SGD update
\* function it builds itself
update_params_own_fn(p, ms, hparams, input_batch, label_batch, opt, step) ==
  LET b     == PerReplica(LAMBDA r : [image |-> input_batch[r], label |-> label_batch[r]], R)
      opt_update_fn_ == optimizer([hparams EXCEPT !.momentum = 0])
      out   == pmapped_train_step(opt_update_fn_, ms, opt[1], p, hparams, b)
      synced == sync_due(step)
      new_model_state == IF synced
                         THEN sync_batch_stats(out.new_model_state)
                         ELSE out.new_model_state
  IN  [ret    |-> <<(<<out.new_optimizer_state, opt_update_fn_>>), out.updated_params,
                    new_model_state>>,
       synced |-> synced,
       used   |-> opt_update_fn_,
       stepped |-> out.new_model_state]

\* update_params(...): the returned <<(new_optimizer_state, opt_update_fn),
\* new_params, new_model_state>>, whether sync_batch_stats was called, the
\* update function given to pmapped_train_step, and the model state
\* pmapped_train_step returned
update_params(p, ms, hparams, input_batch, label_batch, opt, step) ==
  LET b     == PerReplica(LAMBDA r : [image |-> input_batch[r], label |-> label_batch[r]], R)
      opt_update_fn_ == opt[2]
      out   == pmapped_train_step(opt_update_fn_, ms, opt[1], p, hparams, b)
      synced == sync_due(step)
      new_model_state == IF synced
                         THEN sync_batch_stats(out.new_model_state)
                         ELSE out.new_model_state
  IN  [ret    |-> <<(<<out.new_optimizer_state, opt_update_fn_>>), out.updated_params,
                    new_model_state>>,
       synced |-> synced,
       used   |-> opt_update_fn_,
       stepped |-> out.new_model_state]

\* a data_selection that pulls two elements and returns the second
data_selection_twice(queue) ==
  LET x == next_elem(next_iter(queue))
  IN  [ret   |-> <<PerReplica(LAMBDA r : x[r].image, R), PerReplica(LAMBDA r : x[r].label, R)>>,
       queue |-> next_iter(next_iter(queue))]

\* data_selection(workload, input_queue, ...): x = next(input_queue); the
\* returned pair, and the queue after the call
data_selection(queue) ==
  LET x == next_elem(queue)
  IN  [ret   |-> <<PerReplica(LAMBDA r : x[r].image, R), PerReplica(LAMBDA r : x[r].label, R)>>,
       queue |-> next_iter(queue)]

---------------------------------------------------------------------------
(* Evaluation (workload.py) *)

\* compute_metrics(logits, labels) under pmap: loss and accuracy (in units
\* of 1/10000), averaged over the replicas
compute_metrics(logits, labels) ==
  [loss     |-> pmean(PerReplica(LAMBDA r : loss_fn(labels[r], logits[r]), Len(logits))),
   accuracy |-> pmean(PerReplica(LAMBDA r :
                        IF Wrap(logits[r]) % 2 = labels[r] THEN 10000 ELSE 0, Len(logits)))]

\* eval_model_fn(params, batch, state, rng): pmapped over the replicas
eval_model_fn(p, b, state) ==
  compute_metrics(PerReplica(LAMBDA r : model_fn(p[r], b[r], state[r], "EVAL", FALSE)[1], R),
                  PerReplica(LAMBDA r : b[r].label, R))

\* a synchronization written into the caller's model state
eval_model_sync_in_place(ms) ==
  [local |-> sync_batch_stats(ms), caller |-> sync_batch_stats(ms)]

\* eval_model: model_state = self.sync_batch_stats(model_state) binds the
\* call's own name to the copy sync_batch_stats returns; the value the
\* caller holds stays as it was
eval_model_sync(ms) ==
  [local |-> sync_batch_stats(ms), caller |-> ms]

\* an eval_model that builds its dataset in every call
eval_ds_rebuilt(cache, start) ==
  [built |-> TRUE, ds |-> Some(_build_dataset("test", eval_batch_size, start))]

\* eval_model: self._eval_ds after the test for None, and whether this call
\* built it
eval_ds(cache, start) ==
  IF IsNone(cache)
  THEN [built |-> TRUE, ds |-> Some(_build_dataset("test", eval_batch_size, start))]
  ELSE [built |-> FALSE, ds |-> cache]

\* a batch count that rounds up, so the remainder is evaluated too
num_batches_ceil == (num_eval_examples + eval_batch_size - 1) \div eval_batch_size

\* eval_model: num_batches
num_batches == num_eval_examples \div eval_batch_size

\* eval_model: the summary, the mean over the batches of replica 0's metrics
summary_of(eval_metrics) ==
  LET n == Len(eval_metrics)
  IN  [loss     |-> SumTo([i \in 1 .. n |-> eval_metrics[i].loss[1]], n) \div n,
       accuracy |-> SumTo([i \in 1 .. n |-> eval_metrics[i].accuracy[1]], n) \div n]

---------------------------------------------------------------------------
(* The state machine: the workload object, the values the driver threads   *)
(* through the submission functions, and the position of a running         *)
(* eval_model call.                                                        *)

NoCall == [op |-> "none", raised |-> FALSE]
NoEval == [idx |-> 0]
NoSync == [count |-> 0, last_step |-> -1, last_synced |-> FALSE]
BatchSizes == {get_batch_size, get_batch_size + 1}
Splits == {"train", "test"}

\* the driver is between two calls
Idle == eval_pc = "idle"

\* ImagenetWorkload.__init__, in a process with R devices; the driver holds
\* nothing yet
Init ==
  /\ R \in 1 .. MaxReplicas
  /\ shuffle_seed \in 0 .. QueueLen - 1
  /\ _param_shapes = None
  /\ _eval_ds = None
  /\ params = None
  /\ model_state = None
  /\ optimizer_state = None
  /\ global_step = 0
  /\ input_queue = None
  /\ batch = None
  /\ selected_count = 0
  /\ eval_pc = "idle"
  /\ eval_local = NoEval
  /\ eval_count = 0
  /\ sync_log = NoSync
  /\ last_call = NoCall
  /\ call_arg = None

\* workload.init_model_fn(rng), called once by the driver
InitModelFn ==
  /\ Idle
  /\ IsNone(params)
  /\ \E rng \in Rngs :
       LET out == init_model_fn(rng)
       IN  /\ _param_shapes' = out._param_shapes
           /\ params' = Some(out.params)
           /\ model_state' = Some(out.model_state)
           /\ call_arg' = Some(rng)
  /\ last_call' = [op |-> "init_model_fn", raised |-> FALSE]
  /\ UNCHANGED <<R, shuffle_seed, _eval_ds, optimizer_state, global_step, input_queue, batch,
                 selected_count, eval_pc, eval_local, eval_count, sync_log>>

\* a read of the property workload.param_shapes
ReadParamShapes ==
  /\ Idle
  /\ last_call' = IF param_shapes(_param_shapes).raised
                  THEN [op |-> "param_shapes", raised |-> TRUE]
                  ELSE [op |-> "param_shapes", raised |-> FALSE,
                        ret |-> param_shapes(_param_shapes).ret]
  /\ call_arg' = None
  /\ UNCHANGED <<R, shuffle_seed, _param_shapes, _eval_ds, params, model_state, optimizer_state,
                 global_step, input_queue, batch, selected_count, eval_pc,
                 eval_local, eval_count, sync_log>>

\* init_optimizer_state(workload, model_params, model_state, hyperparameters,
\* rng), called by the driver until it holds an optimizer state
InitOptimizerState ==
  /\ Idle
  /\ IsNone(optimizer_state)
  /\ IF param_shapes(_param_shapes).raised
     THEN /\ last_call' = [op |-> "init_optimizer_state", raised |-> TRUE]
          /\ UNCHANGED optimizer_state
     ELSE /\ optimizer_state' =
               Some(init_optimizer_state(param_shapes(_param_shapes).ret, hyperparameters))
          /\ last_call' = [op |-> "init_optimizer_state", raised |-> FALSE,
                           ret |-> param_shapes(_param_shapes).ret]
  /\ call_arg' = None
  /\ UNCHANGED <<R, shuffle_seed, _param_shapes, _eval_ds, params, model_state, global_step,
                 input_queue, batch, selected_count, eval_pc, eval_local,
                 eval_count, sync_log>>

\* workload.build_input_queue(data_rng, split, data_dir, batch_size), called
\* by the driver until it holds an input queue
BuildInputQueue ==
  /\ Idle
  /\ IsNone(input_queue)
  /\ \E split \in Splits, batch_size \in BatchSizes :
       /\ call_arg' = Some([split |-> split, batch_size |-> batch_size])
       /\ IF _build_dataset_raises(batch_size)
          THEN /\ last_call' = [op |-> "build_input_queue", raised |-> TRUE]
               /\ UNCHANGED input_queue
          ELSE /\ input_queue' = Some(_build_dataset(split, batch_size, shuffle_seed))
               /\ last_call' = [op |-> "build_input_queue", raised |-> FALSE]
  /\ UNCHANGED <<R, shuffle_seed, _param_shapes, _eval_ds, params, model_state, optimizer_state,
                 global_step, batch, selected_count, eval_pc, eval_local,
                 eval_count, sync_log>>

\* data_selection(workload, input_queue, optimizer_state, params,
\* hyperparameters, global_step, rng): the driver asks for the next batch
DataSelection ==
  /\ Idle
  /\ ~IsNone(input_queue)
  /\ IsNone(batch)
  /\ selected_count < MaxSteps
  /\ batch' = Some(data_selection(Val(input_queue)).ret)
  /\ input_queue' = Some(data_selection(Val(input_queue)).queue)
  /\ selected_count' = selected_count + 1
  /\ last_call' = [op |-> "data_selection", raised |-> FALSE]
  /\ call_arg' = input_queue
  /\ UNCHANGED <<R, shuffle_seed, _param_shapes, _eval_ds, params, model_state, optimizer_state,
                 global_step, eval_pc, eval_local, eval_count, sync_log>>

\* update_params(...) with the values the driver holds; the driver keeps the
\* returned triple and counts the step
UpdateParams ==
  /\ Idle
  /\ ~IsNone(params) /\ ~IsNone(optimizer_state) /\ ~IsNone(batch)
  /\ global_step < MaxSteps
  /\ LET out == update_params(Val(params), Val(model_state), hyperparameters,
                              Val(batch)[1], Val(batch)[2], Val(optimizer_state),
                              global_step)
     IN  /\ optimizer_state' = Some(out.ret[1])
         /\ params' = Some(out.ret[2])
         /\ model_state' = Some(out.ret[3])
         /\ sync_log' = [count       |-> sync_log.count + (IF out.synced THEN 1 ELSE 0),
                         last_step   |-> global_step,
                         last_synced |-> out.synced]
         /\ last_call' = [op |-> "update_params", raised |-> FALSE,
                           fn_in   |-> Val(optimizer_state)[2],
                           fn_used |-> out.used,
                           fn_out  |-> out.ret[1][2],
                           synced  |-> out.synced,
                           stepped |-> out.stepped,
                           batch   |-> Val(batch)]
  /\ global_step' = global_step + 1
  /\ batch' = None
  /\ call_arg' = model_state
  /\ UNCHANGED <<R, shuffle_seed, _param_shapes, _eval_ds, input_queue, selected_count, eval_pc,
                 eval_local, eval_count>>

\* eval_model(params, model_state, rng, data_dir), called by the driver
\* between two training steps, up to its loop: the
\* statistics are synchronized into the call's own model_state, and the
\* evaluation dataset is built if the workload holds none
EvalModelStart ==
  /\ Idle
  /\ ~IsNone(params)
  /\ IsNone(batch)
  /\ eval_count < MaxEvals
  /\ call_arg' = model_state
  /\ model_state' = Some(eval_model_sync(Val(model_state)).caller)
  /\ IF IsNone(_eval_ds) /\ _build_dataset_raises(eval_batch_size)
     THEN /\ last_call' = [op |-> "eval_model", raised |-> TRUE]
          /\ UNCHANGED <<_eval_ds, eval_pc, eval_local>>
     ELSE /\ _eval_ds' = eval_ds(_eval_ds, shuffle_seed).ds
          /\ eval_pc' = "loop"
          /\ eval_local' = [model_state    |-> eval_model_sync(Val(model_state)).local,
                            built          |-> eval_ds(_eval_ds, shuffle_seed).built,
                            handle         |-> _eval_ds,
                            num_batches    |-> num_batches,
                            idx            |-> 0,
                            pulled         |-> 0,
                            examples       |-> 0,
                            state_used     |-> None,
                            eval_metrics   |-> <<>>,
                            total_accuracy |-> 0]
          /\ last_call' = [op |-> "eval_model_start", raised |-> FALSE]
  /\ UNCHANGED <<R, shuffle_seed, _param_shapes, params, optimizer_state, global_step,
                 input_queue, batch, selected_count, eval_count, sync_log>>

\* eval_model: one pass of the loop over range(num_batches)
EvalBatch ==
  /\ eval_pc = "loop"
  /\ eval_local.idx < eval_local.num_batches
  /\ LET b == next_elem(Val(_eval_ds))
         synced_metrics == eval_model_fn(Val(params), b, eval_local.model_state)
     IN  eval_local' = [eval_local EXCEPT
                          !.idx = @ + 1,
                          !.pulled = @ + 1,
                          !.examples = @ + Val(_eval_ds).batch_size,
                          !.state_used = Some(eval_local.model_state),
                          !.eval_metrics = Append(@, synced_metrics),
                          !.total_accuracy = @ + synced_metrics.accuracy[1]]
  /\ _eval_ds' = Some(next_iter(Val(_eval_ds)))
  /\ UNCHANGED <<R, shuffle_seed, _param_shapes, params, model_state, optimizer_state, global_step,
                 input_queue, batch, selected_count, eval_pc, eval_count, sync_log,
                 last_call, call_arg>>

\* eval_model: the loop is over and the summary is returned
EvalReturn ==
  /\ eval_pc = "loop"
  /\ eval_local.idx >= eval_local.num_batches
  /\ last_call' = [op |-> "eval_model", raised |-> FALSE,
                   ret      |-> summary_of(eval_local.eval_metrics),
                   batches  |-> Len(eval_local.eval_metrics),
                   pulled   |-> eval_local.pulled,
                   examples |-> eval_local.examples,
                   built    |-> eval_local.built]
  /\ eval_pc' = "idle"
  /\ eval_local' = NoEval
  /\ eval_count' = eval_count + 1
  /\ UNCHANGED <<R, shuffle_seed, _param_shapes, _eval_ds, params, model_state, optimizer_state,
                 global_step, input_queue, batch, selected_count, sync_log, call_arg>>

Next ==
  \/ InitModelFn
  \/ ReadParamShapes
  \/ InitOptimizerState
  \/ BuildInputQueue
  \/ DataSelection
  \/ UpdateParams
  \/ EvalModelStart
  \/ EvalBatch
  \/ EvalReturn

Spec == Init /\ [][Next]_vars

---------------------------------------------------------------------------
(* sync_batch_stats as a function: any per-replica model state is given to *)
(* it, and its result is given to it again.                                *)

InitSync ==
  /\ R \in 1 .. MaxReplicas
  /\ shuffle_seed = 0
  /\ call_arg \in {Some(ms) : ms \in [1 .. R -> [batch_stats : Vals]]}
  /\ last_call = NoCall
  /\ _param_shapes = None /\ _eval_ds = None /\ params = None
  /\ model_state = None /\ optimizer_state = None /\ global_step = 0
  /\ input_queue = None /\ batch = None /\ selected_count = 0
  /\ eval_pc = "idle" /\ eval_local = NoEval /\ eval_count = 0
  /\ sync_log = NoSync

SyncOnce ==
  /\ last_call.op = "none"
  /\ last_call' = [op |-> "sync_batch_stats", raised |-> FALSE,
                   ret |-> sync_batch_stats(Val(call_arg))]
  /\ UNCHANGED <<R, shuffle_seed, _param_shapes, _eval_ds, params, model_state, optimizer_state,
                 global_step, input_queue, batch, selected_count, eval_pc,
                 eval_local, eval_count, sync_log, call_arg>>

SyncAgain ==
  /\ last_call.op = "sync_batch_stats"
  /\ last_call' = [op |-> "sync_batch_stats_twice", raised |-> FALSE,
                   first |-> last_call.ret,
                   ret |-> sync_batch_stats(last_call.ret)]
  /\ UNCHANGED <<R, shuffle_seed, _param_shapes, _eval_ds, params, model_state, optimizer_state,
                 global_step, input_queue, batch, selected_count, eval_pc,
                 eval_local, eval_count, sync_log, call_arg>>

NextSync == SyncOnce \/ SyncAgain

SpecSync == InitSync /\ [][NextSync]_vars

---------------------------------------------------------------------------
(* has_reached_goal as a function: any evaluation summary near the target  *)
(* is given to it, on a workload in any state of initialization.           *)

InitGoal ==
  /\ R \in 1 .. MaxReplicas
  /\ shuffle_seed = 0
  /\ call_arg \in {Some([accuracy |-> a, loss |-> l]) :
                     a \in (target_value - MaxDelta) .. (target_value + MaxDelta),
                     l \in Vals}
  /\ last_call = NoCall
  /\ _param_shapes \in {None, init_model_fn(0)._param_shapes}
  /\ _eval_ds \in {None, Some(_build_dataset("test", eval_batch_size, 0))}
  /\ params = None
  /\ model_state = None /\ optimizer_state = None /\ global_step = 0
  /\ input_queue = None /\ batch = None /\ selected_count = 0
  /\ eval_pc = "idle" /\ eval_local = NoEval /\ eval_count = 0
  /\ sync_log = NoSync

HasReachedGoal ==
  /\ last_call.op = "none"
  /\ last_call' = [op |-> "has_reached_goal", raised |-> FALSE,
                   ret |-> has_reached_goal(Val(call_arg))]
  /\ UNCHANGED <<R, shuffle_seed, _param_shapes, _eval_ds, params, model_state, optimizer_state,
                 global_step, input_queue, batch, selected_count, eval_pc,
                 eval_local, eval_count, sync_log, call_arg>>

NextGoal == HasReachedGoal

SpecGoal == InitGoal /\ [][NextGoal]_vars

---------------------------------------------------------------------------
(* model_fn as a function: it is called on one replica with any parameters, *)
(* shard and model state, in either mode, with either update flag.          *)

ModelFnCalls ==
  {[params |-> [l \in Leaves |-> IF l = "kernel" THEN k ELSE b],
    input_batch |-> [image |-> x, label |-> 0],
    model_state |-> [batch_stats |-> m],
    mode |-> mode,
    update_batch_norm |-> u] :
     k \in Vals, b \in Vals, x \in Vals, m \in Vals,
     mode \in {"TRAIN", "EVAL"}, u \in BOOLEAN}

InitModelCall ==
  /\ R = 1
  /\ shuffle_seed = 0
  /\ call_arg \in {Some(c) : c \in ModelFnCalls}
  /\ last_call = NoCall
  /\ _param_shapes = None /\ _eval_ds = None /\ params = None
  /\ model_state = None /\ optimizer_state = None /\ global_step = 0
  /\ input_queue = None /\ batch = None /\ selected_count = 0
  /\ eval_pc = "idle" /\ eval_local = NoEval /\ eval_count = 0
  /\ sync_log = NoSync

ModelFn ==
  /\ last_call.op = "none"
  /\ last_call' = [op |-> "model_fn", raised |-> FALSE,
                   ret |-> model_fn(Val(call_arg).params, Val(call_arg).input_batch,
                                    Val(call_arg).model_state, Val(call_arg).mode,
                                    Val(call_arg).update_batch_norm)]
  /\ UNCHANGED <<R, shuffle_seed, _param_shapes, _eval_ds, params, model_state, optimizer_state,
                 global_step, input_queue, batch, selected_count, eval_pc,
                 eval_local, eval_count, sync_log, call_arg>>

NextModelCall == ModelFn

SpecModelFn == InitModelCall /\ [][NextModelCall]_vars

---------------------------------------------------------------------------
(* _loss_fn as a function: the training loss of one replica for any         *)
(* parameters (a matrix, a vector and a scalar leaf), shard, model state    *)
(* and coefficient l2.                                                      *)

LossCalls ==
  {[params |-> [l \in {"kernel", "bias", "scale"} |->
                  IF l = "kernel" THEN k ELSE IF l = "bias" THEN b ELSE sc],
    batch |-> [image |-> x, label |-> y],
    model_state |-> [batch_stats |-> m],
    hyperparameters |-> [hyperparameters EXCEPT !.l2 = c]] :
     k \in Vals, b \in Vals, sc \in Vals, x \in Vals, y \in 0 .. 1, m \in Vals,
     c \in 0 .. MaxL2}

InitLoss ==
  /\ R = 1
  /\ shuffle_seed = 0
  /\ call_arg \in {Some(c) : c \in LossCalls}
  /\ last_call = NoCall
  /\ _param_shapes = None /\ _eval_ds = None /\ params = None
  /\ model_state = None /\ optimizer_state = None /\ global_step = 0
  /\ input_queue = None /\ batch = None /\ selected_count = 0
  /\ eval_pc = "idle" /\ eval_local = NoEval /\ eval_count = 0
  /\ sync_log = NoSync

\* _loss_fn(params), and workload.loss_fn on the logits of the same forward
\* pass
TrainLoss ==
  /\ last_call.op = "none"
  /\ LET c == Val(call_arg)
     IN  last_call' = [op |-> "_loss_fn", raised |-> FALSE,
                       ret |-> _loss_fn(c.params, c.batch, c.model_state, c.hyperparameters),
                       logits |-> model_fn(c.params, c.batch, c.model_state, "TRAIN", TRUE)[1],
                       loss_fn |-> loss_fn(c.batch.label,
                                           model_fn(c.params, c.batch, c.model_state,
                                                    "TRAIN", TRUE)[1])]
  /\ UNCHANGED <<R, shuffle_seed, _param_shapes, _eval_ds, params, model_state, optimizer_state,
                 global_step, input_queue, batch, selected_count, eval_pc,
                 eval_local, eval_count, sync_log, call_arg>>

NextLoss == TrainLoss

SpecLoss == InitLoss /\ [][NextLoss]_vars

---------------------------------------------------------------------------
(* create_learning_rate_fn as a function: a schedule is built for any       *)
(* configuration and read at the steps 0, 1, 2, ... in turn.                *)

ScheduleConfigs ==
  {[hparams |-> [hyperparameters EXCEPT !.learning_rate = 10 * lr,
                                        !.warmup_epochs = we,
                                        !.num_epochs = ne],
    steps_per_epoch |-> spe] :
     lr \in 0 .. MaxRate, we \in 0 .. MaxWarmup, ne \in 1 .. MaxEpochs, spe \in 1 .. MaxSpe}

InitSchedule ==
  /\ R \in 1 .. 1
  /\ shuffle_seed = 0
  /\ call_arg \in {Some(c) : c \in ScheduleConfigs}
  /\ last_call = NoCall
  /\ _param_shapes = None /\ _eval_ds = None /\ params = None
  /\ model_state = None /\ optimizer_state = None /\ global_step = 0
  /\ input_queue = None /\ batch = None /\ selected_count = 0
  /\ eval_pc = "idle" /\ eval_local = NoEval /\ eval_count = 0
  /\ sync_log = NoSync

\* schedule_fn(global_step), and the value it had one step earlier
LearningRateFn ==
  /\ global_step <= MaxEpochs * MaxSpe + 1
  /\ last_call' = [op |-> "learning_rate_fn", raised |-> FALSE,
                   count |-> global_step,
                   ret |-> create_learning_rate_fn(Val(call_arg).hparams,
                                                   Val(call_arg).steps_per_epoch,
                                                   global_step),
                   prev |-> IF last_call.op = "none" THEN None ELSE Some(last_call.ret)]
  /\ global_step' = global_step + 1
  /\ UNCHANGED <<R, shuffle_seed, _param_shapes, _eval_ds, params, model_state, optimizer_state,
                 input_queue, batch, selected_count, eval_pc,
                 eval_local, eval_count, sync_log, call_arg>>

NextSchedule == LearningRateFn

SpecSchedule == InitSchedule /\ [][NextSchedule]_vars

---------------------------------------------------------------------------
(* Properties *)

\* C1: after every training step the parameters and the optimizer state are
\* identical on all replicas, whatever shards and per-replica model state
\* the step used, after any number of steps.
C1_ReplicasAgree ==
  /\ ~IsNone(params) => Identical(Val(params))
  /\ ~IsNone(optimizer_state) => Identical(Val(optimizer_state)[1])

\* several steps were taken on more than one replica, the parameters have
\* moved and the replicas' model states differ
C1_Witness ==
  /\ R > 1
  /\ global_step >= 2
  /\ ~Identical(Val(model_state))
  /\ Val(params)[1] # init_model_fn(0).params[1]

\* C2: update_params synchronizes the batch statistics exactly in the calls
\* with (global_step + 1) % 73 = 0, 73 being 9469 // 128: in the call of
\* step 72 and not in that of step 71, once every 73 steps.
C2_SyncAtBoundary ==
  /\ steps_per_epoch = 73
  /\ sync_log.count = global_step \div 73
  /\ sync_log.last_step >= 0 =>
       (sync_log.last_synced <=> (sync_log.last_step + 1) % 73 = 0)
  /\ sync_log.last_step = 72 => sync_log.last_synced
  /\ sync_log.last_step = 71 => ~sync_log.last_synced

\* the second boundary has just been crossed
C2_Witness == sync_log.count = 2 /\ sync_log.last_synced /\ sync_log.last_step = 145

\* C3: within eval_model the model state is synchronized before the first
\* batch, and every batch is evaluated with a model state that is identical
\* on all replicas.
C3_EvalSeesSynced ==
  eval_pc = "loop" =>
    /\ Identical(eval_local.model_state)
    /\ ~IsNone(eval_local.state_used) =>
         /\ Identical(Val(eval_local.state_used))
         /\ Val(eval_local.state_used) = eval_local.model_state

\* batches are being evaluated while the caller's model state differs
\* between the replicas
C3_Witness ==
  /\ eval_pc = "loop"
  /\ eval_local.idx >= 1
  /\ ~Identical(Val(model_state))

\* C4: has_reached_goal is true exactly when the accuracy field is strictly
\* above 0.76 (7600 in units of 1/10000), whatever the other field and the
\* state of the workload.
C4_GoalStrict ==
  last_call.op = "has_reached_goal" =>
    /\ last_call.ret <=> Val(call_arg).accuracy > 7600
    /\ Val(call_arg).accuracy = 7600 => ~last_call.ret
    /\ Val(call_arg).accuracy = 7601 => last_call.ret

\* the goal was tested with an accuracy equal to the target
C4_Witness ==
  /\ last_call.op = "has_reached_goal"
  /\ Val(call_arg).accuracy = 7600
  /\ ~last_call.ret

\* C5: one eval_model call pulls and evaluates exactly 3925 // 200 = 19
\* batches of 200 examples each, so the 125 trailing examples are left out,
\* and the summary is returned only after the 19th batch.
C5_BatchCount ==
  /\ eval_pc = "loop" =>
       /\ eval_local.pulled = eval_local.idx
       /\ Len(eval_local.eval_metrics) = eval_local.idx
       /\ eval_local.examples = 200 * eval_local.idx
       /\ eval_local.idx <= 19
  /\ (last_call.op = "eval_model" /\ ~last_call.raised) =>
       /\ last_call.batches = 19
       /\ last_call.pulled = 19
       /\ last_call.examples = 3800
       /\ 3925 - last_call.examples = 3925 % 200

\* an evaluation has returned its summary
C5_Witness == last_call.op = "eval_model" /\ ~last_call.raised

\* C6: sync_batch_stats leaves every replica with the (rounded) mean of the
\* replicas' statistics, returns an already identical state unchanged, and
\* applied to its own result returns that result.
C6_SyncIdempotent ==
  /\ last_call.op = "sync_batch_stats" =>
       LET s   == Val(call_arg)
           t   == last_call.ret
           sum == SumTo([r \in 1 .. R |-> s[r].batch_stats], R)
       IN  /\ DOMAIN t = DOMAIN s
           /\ Identical(t)
           /\ R * t[1].batch_stats <= sum
           /\ sum < R * t[1].batch_stats + R
           /\ Identical(s) => t = s
  /\ last_call.op = "sync_batch_stats_twice" => last_call.ret = last_call.first

\* statistics that differed between the replicas were synchronized twice
C6_Witness ==
  /\ last_call.op = "sync_batch_stats_twice"
  /\ R > 1
  /\ ~Identical(Val(call_arg))

\* C7: a read of param_shapes, alone or inside init_optimizer_state, raises
\* exactly when init_model_fn has not completed; afterwards it returns the
\* shape tree of the parameters, and the cache is set by init_model_fn only.
C7_ParamShapes ==
  /\ IsNone(_param_shapes) <=> IsNone(params)
  /\ ~IsNone(params) =>
       Val(_param_shapes) = [l \in DOMAIN Val(params)[1] |-> ShapeTuple(l)]
  /\ last_call.op \in {"param_shapes", "init_optimizer_state"} =>
       /\ last_call.raised <=> IsNone(params)
       /\ ~last_call.raised =>
            last_call.ret = [l \in DOMAIN Val(params)[1] |-> ShapeTuple(l)]

\* param_shapes was read after training steps
C7_Witness ==
  /\ last_call.op = "param_shapes"
  /\ ~last_call.raised
  /\ global_step >= 1

\* C8, in a state: build_input_queue raises exactly when batch_size % R # 0
\* and then leaves no iterator; eval_model raises only when 200 % R # 0 and
\* then leaves no evaluation dataset.
C8_Raises ==
  /\ last_call.op = "build_input_queue" =>
       /\ last_call.raised <=> Val(call_arg).batch_size % R # 0
       /\ last_call.raised => IsNone(input_queue)
  /\ (last_call.op = "eval_model" /\ last_call.raised) =>
       /\ 200 % R # 0
       /\ IsNone(_eval_ds)
  /\ last_call.op = "eval_model_start" => 200 % R = 0
  /\ ~IsNone(input_queue) => Val(input_queue).batch_size % R = 0
  /\ ~IsNone(_eval_ds) => Val(_eval_ds).batch_size % R = 0

\* C8, in a step: a call that raises the validation error changes nothing
\* of the workload and creates no iterator
C8_RaiseChangesNothing ==
  (last_call'.op \in {"build_input_queue", "eval_model"} /\ last_call'.raised) =>
    UNCHANGED <<_param_shapes, _eval_ds, input_queue, params, model_state>>

\* C8: build_input_queue, and eval_model for its dataset of batch size 200,
\* raise the validation error exactly when the batch size is not divisible
\* by the replica count, before anything is built and with the workload
\* unchanged.
C8_Validation == []C8_Raises /\ [][C8_RaiseChangesNothing]_vars

\* build_input_queue raised for a batch size the replicas do not divide,
\* on an initialized workload
C8_Witness ==
  /\ last_call.op = "build_input_queue"
  /\ last_call.raised
  /\ ~IsNone(_param_shapes)
  /\ Val(call_arg).batch_size % R # 0

\* C9: build_input_queue returns batches of the split its argument names,
\* and eval_model reads the held-out split.
C9_SplitHonoured ==
  /\ (last_call.op = "build_input_queue" /\ ~last_call.raised) =>
       Val(input_queue).split = Val(call_arg).split
  /\ ~IsNone(_eval_ds) => Val(_eval_ds).split = "test"

\* C10: a data_selection call advances the queue by one element and returns
\* that element's images and labels; on a cyclic queue it never raises and
\* its k-th call returns the k-th element of the cycle.
C10_DataSelection ==
  last_call.op = "data_selection" =>
    LET before == Val(call_arg)
    IN  /\ ~last_call.raised
        /\ Val(input_queue).pos = (before.pos + 1) % QueueLen
        /\ before.pos = (before.start + selected_count - 1) % QueueLen
        /\ Val(batch) = <<[r \in 1 .. R |-> Shard(before.split, before.pos, r).image],
                          [r \in 1 .. R |-> Shard(before.split, before.pos, r).label]>>

\* the queue has gone round its sequence more than twice
C10_Witness ==
  /\ last_call.op = "data_selection"
  /\ selected_count > 2 * QueueLen
  /\ global_step >= 1

\* C11: the optimizer state the driver threads through update_params stays
\* paired with the update function init_optimizer_state created it with:
\* each update_params call steps with the function of the pair it received
\* and returns that same function in the pair it hands back.
C11_PairThreaded ==
  /\ ~IsNone(optimizer_state) =>
       Val(optimizer_state)[2] = init_optimizer_state(shapes_of(Val(params)[1]),
                                                      hyperparameters)[2]
  /\ last_call.op = "update_params" =>
       /\ last_call.fn_used = last_call.fn_in
       /\ last_call.fn_out = last_call.fn_in
       /\ Val(optimizer_state)[2] = last_call.fn_out

\* the pair has been threaded through several steps, across a boundary
C11_Witness ==
  /\ last_call.op = "update_params"
  /\ global_step > steps_per_epoch
  /\ Val(optimizer_state)[1][1].count = global_step

\* the shape of the schedule just read: 0 at step 0, the base rate at the
\* end of the warmup, 0 at the final step, rising before and falling after
C12_Shape ==
  LET hparams  == Val(call_arg).hparams
      spe      == Val(call_arg).steps_per_epoch
      base     == (hparams.learning_rate * 128) \div 256
      boundary == hparams.warmup_epochs * spe
      final    == hparams.num_epochs * spe
  IN  /\ last_call.count = 0 => last_call.ret = 0
      /\ last_call.count = boundary => last_call.ret = base
      /\ last_call.count = final => last_call.ret = 0
      /\ (~IsNone(last_call.prev) /\ last_call.count <= boundary) =>
           Val(last_call.prev) <= last_call.ret
      /\ (~IsNone(last_call.prev) /\ last_call.count > boundary) =>
           Val(last_call.prev) >= last_call.ret

\* C12 as stated: for every configuration the schedule is 0 at step 0, the
\* base rate at step warmup_epochs * steps_per_epoch and 0 at step
\* num_epochs * steps_per_epoch, non-decreasing before and non-increasing
\* after the end of the warmup.
C12_Schedule == last_call.op = "learning_rate_fn" => C12_Shape

\* C12: for every configuration with warmup_epochs >= 1 and num_epochs >
\* warmup_epochs the schedule is 0 at step 0, the base rate at step
\* warmup_epochs * steps_per_epoch and 0 at step num_epochs *
\* steps_per_epoch, non-decreasing before and non-increasing after the end
\* of the warmup.
C12_ScheduleWarmed ==
  (/\ last_call.op = "learning_rate_fn"
   /\ Val(call_arg).hparams.warmup_epochs >= 1
   /\ Val(call_arg).hparams.num_epochs > Val(call_arg).hparams.warmup_epochs)
  => C12_Shape

\* a schedule with a warmup and a longer run has come down from a positive
\* rate to 0 at its final step
C12_Witness ==
  /\ last_call.op = "learning_rate_fn"
  /\ Val(call_arg).hparams.warmup_epochs >= 1
  /\ Val(call_arg).hparams.num_epochs > Val(call_arg).hparams.warmup_epochs
  /\ Val(call_arg).steps_per_epoch > 1
  /\ last_call.count = Val(call_arg).hparams.num_epochs * Val(call_arg).steps_per_epoch
  /\ last_call.ret = 0
  /\ Val(last_call.prev) > 0

\* C13: in an update_params call that crosses an epoch boundary the
\* statistics are synchronized after the training step, on the model state
\* that step produced from the call's own arguments, and before the call
\* returns: the returned model state is that state's mean on every replica,
\* and a step that follows a boundary starts from an identical model state.
C13_SyncAfterStep ==
  /\ (last_call.op = "update_params" /\ last_call.synced) =>
       LET st  == last_call.stepped
           t   == Val(model_state)
           sum == SumTo([r \in 1 .. R |-> st[r].batch_stats], R)
       IN  /\ \A r \in 1 .. R :
                st[r].batch_stats =
                  (Val(call_arg)[r].batch_stats + last_call.batch[1][r]) \div 2
           /\ Identical(t)
           /\ R * t[1].batch_stats <= sum
           /\ sum < R * t[1].batch_stats + R
  /\ (global_step > 0 /\ global_step % steps_per_epoch = 0) =>
       Identical(Val(model_state))

\* a boundary step whose training step left the replicas with different
\* statistics has returned
C13_Witness ==
  /\ last_call.op = "update_params"
  /\ last_call.synced
  /\ R > 1
  /\ ~Identical(last_call.stepped)
  /\ ~Identical(Val(call_arg))

\* C14: an update_params call that does not cross an epoch boundary returns,
\* for each replica, the model state that replica computed from its own
\* shard and its own previous state, not an average, while the parameters,
\* updated with the averaged gradient, are identical on all replicas.
C14_AuxStaysLocal ==
  (last_call.op = "update_params" /\ ~last_call.synced) =>
    /\ Val(model_state) = last_call.stepped
    /\ \A r \in 1 .. R :
         Val(model_state)[r].batch_stats =
           (Val(call_arg)[r].batch_stats + last_call.batch[1][r]) \div 2
    /\ Identical(Val(params))

\* a step inside an epoch has left the replicas with different statistics
\* that are not their mean
C14_Witness ==
  /\ last_call.op = "update_params"
  /\ ~last_call.synced
  /\ R > 1
  /\ ~Identical(Val(model_state))
  /\ Val(model_state) # sync_batch_stats(Val(model_state))
  /\ global_step > 1

\* C15 as stated: the mode alone decides; model_fn in EVAL mode returns no
\* second value, and in TRAIN mode returns the updated model state, whatever
\* the update flag.
C15_ModeDecides ==
  last_call.op = "model_fn" =>
    LET c == Val(call_arg)
    IN  /\ c.mode = "EVAL" => IsNone(last_call.ret[2])
        /\ c.mode = "TRAIN" =>
             /\ ~IsNone(last_call.ret[2])
             /\ Val(last_call.ret[2]).batch_stats =
                  (c.model_state.batch_stats + c.input_batch.image) \div 2

\* C15: model_fn returns a second value exactly when the update flag is
\* set; in EVAL mode without the flag it returns none, in TRAIN mode with
\* the flag it returns the updated model state, and in EVAL mode with the
\* flag it returns the model state it was given.
C15_FlagDecides ==
  last_call.op = "model_fn" =>
    LET c == Val(call_arg)
    IN  /\ ~IsNone(last_call.ret[2]) <=> c.update_batch_norm
        /\ (c.mode = "EVAL" /\ ~c.update_batch_norm) => IsNone(last_call.ret[2])
        /\ (c.mode = "TRAIN" /\ c.update_batch_norm) =>
             Val(last_call.ret[2]).batch_stats =
               (c.model_state.batch_stats + c.input_batch.image) \div 2
        /\ (c.mode = "EVAL" /\ c.update_batch_norm) =>
             Val(last_call.ret[2]) = c.model_state

\* model_fn in EVAL mode with the update flag has returned the model state
\* it was given, which a training pass would have changed
C15_Witness ==
  /\ last_call.op = "model_fn"
  /\ Val(call_arg).mode = "EVAL"
  /\ Val(call_arg).update_batch_norm
  /\ Val(last_call.ret[2]) = Val(call_arg).model_state
  /\ (Val(call_arg).model_state.batch_stats + Val(call_arg).input_batch.image) \div 2
       # Val(call_arg).model_state.batch_stats

\* C16: the evaluation dataset is built by the first eval_model call and by
\* no later one; a later call reads on from the handle the workload already
\* held, and every call, first or later, evaluates 3925 // 200 = 19 batches.
C16_EvalDsBuiltOnce ==
  /\ eval_pc = "loop" =>
       /\ eval_local.built <=> eval_count = 0
       /\ eval_local.built <=> IsNone(eval_local.handle)
       /\ ~eval_local.built =>
            Val(_eval_ds) = [Val(eval_local.handle) EXCEPT
                               !.pos = (@ + eval_local.idx) % QueueLen]
  /\ (last_call.op = "eval_model" /\ ~last_call.raised) =>
       /\ last_call.built <=> eval_count = 1
       /\ last_call.batches = 3925 \div 200
       /\ last_call.pulled = 3925 \div 200
  /\ eval_count >= 1 => ~IsNone(_eval_ds)

\* a second evaluation has returned without building a dataset
C16_Witness ==
  /\ last_call.op = "eval_model"
  /\ ~last_call.raised
  /\ eval_count = 2
  /\ ~last_call.built
  /\ last_call.batches = 19

\* C18, in a state: during and after an eval_model call the caller's model
\* state is the one it passed in
C18_CallerKeeps ==
  (eval_pc = "loop" \/ last_call.op = "eval_model") => model_state = call_arg

\* C18, in a step: a step of eval_model changes nothing the caller holds and
\* no field of the workload but the evaluation dataset
C18_Frame ==
  (eval_pc = "loop" \/ eval_pc' = "loop" \/ last_call'.op = "eval_model") =>
    UNCHANGED <<params, model_state, optimizer_state, _param_shapes, input_queue,
                batch, global_step>>

\* C18: eval_model changes neither the parameters nor the model state its
\* caller holds, synchronizing only its own copy, so training goes on from
\* the model state it had before the evaluation; of the workload's fields
\* only the evaluation dataset may change.
C18_EvalLeavesCaller == []C18_CallerKeeps /\ [][C18_Frame]_vars

\* an evaluation between two boundaries has returned and the caller still
\* holds statistics that differ between the replicas
C18_Witness ==
  /\ last_call.op = "eval_model"
  /\ ~last_call.raised
  /\ R > 1
  /\ global_step % steps_per_epoch # 0
  /\ ~Identical(Val(model_state))
  /\ ~IsNone(_eval_ds)

\* C17: the training loss of a replica is loss_fn on its shard plus
\* l2 * 0.5 * the squared entries of the leaves of rank above 1 (the kernel);
\* the vector and scalar leaves add nothing to it, and loss_fn is the plain
\* loss of the logits, the same whatever l2 and the size of the parameters.
C17_TrainLoss ==
  last_call.op = "_loss_fn" =>
    LET c == Val(call_arg)
        penalty == (c.hyperparameters.l2 * c.params.kernel * c.params.kernel) \div 2
    IN  /\ last_call.ret[1] = last_call.loss_fn + penalty
        /\ c.hyperparameters.l2 = 0 => last_call.ret[1] = last_call.loss_fn
        /\ c.params.kernel = 0 => last_call.ret[1] = last_call.loss_fn
        /\ last_call.loss_fn =
             (last_call.logits - c.batch.label) * (last_call.logits - c.batch.label)

\* a penalized loss was computed with a non-zero vector leaf and a non-zero
\* scalar leaf
C17_Witness ==
  /\ last_call.op = "_loss_fn"
  /\ Val(call_arg).hyperparameters.l2 > 0
  /\ Val(call_arg).params.kernel > 0
  /\ Val(call_arg).params.bias > 0
  /\ Val(call_arg).params.scale > 0
  /\ last_call.ret[1] > last_call.loss_fn

====
